---- MODULE Spec2Model ----
(***************************************************************************)
(* Model of the prerequisite / plan validator of backend/main.py:          *)
(* PrerequisiteValidator.validate_plan behind the POST /api/validate-plan  *)
(* endpoint.  Strings that the code builds, sorts and splits (the          *)
(* semester keys) are sequences of one-character strings.  The course      *)
(* filter of generate_four_year_plan (POST /api/generate-plan) is modelled  *)
(* on the same server, its course codes are such sequences too.            *)
(***************************************************************************)
EXTENDS Integers, Sequences, FiniteSets, TLC

\* ------------------------------------------------------------------ bounds
MaxLen == 3          \* longest plan drawn from the general entries
MaxLoad == 7         \* longest plan drawn from the credit-load entries
MaxRaw == 2          \* longest plan drawn from the unchecked request entries
MaxCourses == 2      \* longest semester list of a generated plan

\* ------------------------------------------------------- program constants
CreditsPerCourse == 3
MinCredits == 12
MaxCredits == 18

Calls == {1, 2}      \* two requests against the one validator instance

\* ----------------------------------------------------------- string model
Digits == <<"0", "1", "2", "3", "4", "5", "6", "7", "8", "9">>

\* ord() of the characters a semester key can contain
Ord(ch) ==
  IF ch = "-" THEN 45
  ELSE 47 + (CHOOSE i \in 1..10 : Digits[i] = ch)

RECURSIVE FormatNat(_)
FormatNat(n) ==
  IF n < 10 THEN <<Digits[n + 1]>>
  ELSE FormatNat(n \div 10) \o <<Digits[(n % 10) + 1]>>

\* str(int) as the f-string renders course.year
FormatInt(n) == IF n < 0 THEN <<"-">> \o FormatNat(0 - n) ELSE FormatNat(n)

\* a key with a third ordinal for what is neither Fall nor Spring
SemesterKeyThreeTerms(course) ==
  FormatInt(course.year) \o <<"-">>
    \o <<IF course.semester = "Fall" THEN "1"
         ELSE IF course.semester = "Spring" THEN "2" ELSE "3">>

\* f"{course.year}-{'1' if course.semester == 'fall' else '2'}"
SemesterKeyLowercase(course) ==
  FormatInt(course.year) \o <<"-">>
    \o <<IF course.semester = "fall" THEN "1" ELSE "2">>

\* f"{course.year}-{'1' if course.semester == 'Fall' else '2'}"
SemesterKey(course) ==
  FormatInt(course.year) \o <<"-">>
    \o <<IF course.semester = "Fall" THEN "1" ELSE "2">>

\* Python's str < str: code point order, a proper prefix is smaller
RECURSIVE StrLess(_, _)
StrLess(a, b) ==
  IF b = <<>> THEN FALSE
  ELSE IF a = <<>> THEN TRUE
  ELSE IF Ord(Head(a)) # Ord(Head(b)) THEN Ord(Head(a)) < Ord(Head(b))
  ELSE StrLess(Tail(a), Tail(b))

RECURSIVE InsertSorted(_, _)
InsertSorted(k, s) ==
  IF s = <<>> THEN <<k>>
  ELSE IF StrLess(k, Head(s)) THEN <<k>> \o s
  ELSE <<Head(s)>> \o InsertSorted(k, Tail(s))

\* sorted(timeline.keys())
RECURSIVE Sorted(_)
Sorted(ks) ==
  IF ks = <<>> THEN <<>> ELSE InsertSorted(Head(ks), Sorted(Tail(ks)))

\* semester_key.split(): no separator given, a key has no whitespace
SplitOnWhitespace(s) == <<s>>

\* semester_key.rsplit('-', 1)
SplitLast(s) ==
  LET dashes == {i \in 1..Len(s) : s[i] = "-"}
  IN  IF dashes = {} THEN <<s>>
      ELSE LET last == CHOOSE i \in dashes : \A j \in dashes : j <= i
           IN  <<SubSeq(s, 1, last - 1), SubSeq(s, last + 1, Len(s))>>

\* semester_key.split('-')
RECURSIVE Split(_)
Split(s) ==
  IF s = <<>> THEN << <<>> >>
  ELSE IF Head(s) = "-" THEN << <<>> >> \o Split(Tail(s))
  ELSE LET rest == Split(Tail(s))
       IN  << <<Head(s)>> \o Head(rest) >> \o Tail(rest)

\* int(year) on a string of decimal digits with an optional minus sign
RECURSIVE ParseInt(_)
ParseInt(s) ==
  IF s = <<>> THEN 0
  ELSE IF Head(s) = "-" THEN 0 - ParseInt(Tail(s))
  ELSE 10 * ParseInt(SubSeq(s, 1, Len(s) - 1))
         + (CHOOSE i \in 0..9 : Digits[i + 1] = s[Len(s)])

\* --------------------------------------------------------- validator state
\* PrerequisiteValidator._build_course_graph
BuildCourseGraph ==
  [c \in {"CS 1110", "CS 2100", "CS 2120", "CS 3100", "CS 4750", "CS 4710",
          "MATH 1310", "MATH 1320", "MATH 2310", "APMA 3080"} |->
     CASE c = "CS 1110"   -> <<>>
       [] c = "CS 2100"   -> <<"CS 1110">>
       [] c = "CS 2120"   -> <<"CS 2100">>
       [] c = "CS 3100"   -> <<"CS 2100", "CS 2120">>
       [] c = "CS 4750"   -> <<"CS 2120">>
       [] c = "CS 4710"   -> <<"CS 2120">>
       [] c = "MATH 1310" -> <<>>
       [] c = "MATH 1320" -> <<"MATH 1310">>
       [] c = "MATH 2310" -> <<"MATH 1320">>
       [] c = "APMA 3080" -> <<"MATH 1320">>]

\* the prerequisites of the course followed by those of its prerequisites
GraphGetTransitive(graph, course_code) ==
  LET Direct(code) == IF code \in DOMAIN graph THEN graph[code] ELSE <<>>
      RECURSIVE Below(_)
      Below(ps) == IF ps = <<>> THEN <<>> ELSE Direct(Head(ps)) \o Below(Tail(ps))
  IN  Direct(course_code) \o Below(Direct(course_code))

\* self.course_graph.get(course_code, [])
GraphGet(graph, course_code) ==
  IF course_code \in DOMAIN graph THEN graph[course_code] ELSE <<>>

\* x in list
InList(x, list) == \E i \in 1..Len(list) : list[i] = x

\* ----------------------------------------------------------------- timeline
\* The dict `timeline` keeps insertion order: a sequence of
\* [key, courses] items, one per distinct key, in order of first insertion.
HasKey(timeline, k) == \E i \in 1..Len(timeline) : timeline[i].key = k

TimelineGet(timeline, k) ==
  timeline[CHOOSE i \in 1..Len(timeline) : timeline[i].key = k].courses

TimelineKeys(timeline) == [i \in 1..Len(timeline) |-> timeline[i].key]

\* body of the grouping loop for one course, a course code appended to its
\* term only if the term does not hold it yet
TimelineAddOnce(timeline, course) ==
  LET k == SemesterKey(course)
  IN  IF HasKey(timeline, k)
      THEN [i \in 1..Len(timeline) |->
              IF timeline[i].key = k /\ ~InList(course.courseCode, timeline[i].courses)
              THEN [key |-> k,
                    courses |-> Append(timeline[i].courses, course.courseCode)]
              ELSE timeline[i]]
      ELSE Append(timeline, [key |-> k, courses |-> <<course.courseCode>>])

\* body of the grouping loop for one course
TimelineAdd(timeline, course) ==
  LET k == SemesterKey(course)
  IN  IF HasKey(timeline, k)
      THEN [i \in 1..Len(timeline) |->
              IF timeline[i].key = k
              THEN [key |-> k,
                    courses |-> Append(timeline[i].courses, course.courseCode)]
              ELSE timeline[i]]
      ELSE Append(timeline, [key |-> k, courses |-> <<course.courseCode>>])

RECURSIVE BuildTimeline(_)
BuildTimeline(courses) ==
  IF courses = <<>> THEN <<>>
  ELSE TimelineAdd(BuildTimeline(SubSeq(courses, 1, Len(courses) - 1)),
                   courses[Len(courses)])

\* ------------------------------------------------------- prerequisite pass
\* next((c for c in plan.courses if c.courseCode == course_code), None)
CourseInfo(courses, course_code) ==
  courses[CHOOSE i \in 1..Len(courses) :
            /\ courses[i].courseCode = course_code
            /\ \A j \in 1..(i - 1) : courses[j].courseCode # course_code]

\* the guard without its same-term clause
PrereqMissingIgnoringTerm(prereq, completed, courses_this_semester) ==
  prereq \notin completed

\* the guard of the innermost loop
PrereqMissing(prereq, completed, courses_this_semester) ==
  prereq \notin completed /\ ~InList(prereq, courses_this_semester)

\* the finding filed under the prerequisite instead of the course
MissingPrereqErrorForPrereq(course_code, course_info, prereq) ==
  [courseCode |-> prereq,
   year       |-> course_info.year,
   semester   |-> course_info.semester,
   error      |-> <<"Missing prerequisite: ", prereq>>,
   severity   |-> "error"]

\* ValidationError(courseCode=..., year=..., semester=..., error=f"Missing
\* prerequisite: {prereq}", severity="error")
MissingPrereqError(course_code, course_info, prereq) ==
  [courseCode |-> course_code,
   year       |-> course_info.year,
   semester   |-> course_info.semester,
   error      |-> <<"Missing prerequisite: ", prereq>>,
   severity   |-> "error"]

\* for prereq in prereqs: ...
RECURSIVE PrereqErrors(_, _, _, _, _)
PrereqErrors(courses, course_code, prereqs, completed, here) ==
  IF prereqs = <<>> THEN <<>>
  ELSE (IF PrereqMissing(Head(prereqs), completed, here)
          /\ InList(course_code, [i \in 1..Len(courses) |-> courses[i].courseCode])
        THEN <<MissingPrereqError(course_code,
                                  CourseInfo(courses, course_code),
                                  Head(prereqs))>>
        ELSE <<>>)
       \o PrereqErrors(courses, course_code, Tail(prereqs), completed, here)

\* for course_code in reversed(courses_this_semester): ...
RECURSIVE TermErrorsReversed(_, _, _, _, _)
TermErrorsReversed(graph, courses, todo, completed, here) ==
  IF todo = <<>> THEN <<>>
  ELSE TermErrorsReversed(graph, courses, Tail(todo), completed, here)
       \o PrereqErrors(courses, Head(todo), GraphGet(graph, Head(todo)),
                       completed, here)

\* for course_code in courses_this_semester: ...
RECURSIVE TermErrors(_, _, _, _, _)
TermErrors(graph, courses, todo, completed, here) ==
  IF todo = <<>> THEN <<>>
  ELSE PrereqErrors(courses, Head(todo), GraphGet(graph, Head(todo)),
                    completed, here)
       \o TermErrors(graph, courses, Tail(todo), completed, here)

\* only the courses of the term whose prerequisites were all met are added
CompletedUpdateUnlessError(completed, courses_this_semester) ==
  completed \cup
    {courses_this_semester[i] : i \in
       {j \in 1..Len(courses_this_semester) :
          \A k \in 1..Len(GraphGet(BuildCourseGraph, courses_this_semester[j])) :
            ~PrereqMissing(GraphGet(BuildCourseGraph, courses_this_semester[j])[k],
                           completed, courses_this_semester)}}

\* completed.update(c for c in courses_this_semester if c in course_graph)
CompletedUpdateKnownOnly(completed, courses_this_semester) ==
  completed \cup
    {courses_this_semester[i] : i \in
       {j \in 1..Len(courses_this_semester) :
          courses_this_semester[j] \in DOMAIN BuildCourseGraph}}

\* completed = set(courses_this_semester)
CompletedReplace(completed, courses_this_semester) ==
  {courses_this_semester[i] : i \in 1..Len(courses_this_semester)}

\* completed.update(courses_this_semester)
CompletedUpdate(completed, courses_this_semester) ==
  completed \cup {courses_this_semester[i] : i \in 1..Len(courses_this_semester)}

\* ------------------------------------------------------- credit-load pass
\* int(s) does not raise: decimal digits after an optional minus sign
IsDigits(s) ==
  LET digits == IF s # <<>> /\ Head(s) = "-" THEN Tail(s) ELSE s
  IN  digits # <<>>
        /\ \A i \in 1..Len(digits) : \E d \in 1..10 : Digits[d] = digits[i]

\* ValidationError(courseCode="", year=int(year), semester=sem_name, ...)
LoadWarning(year, sem_name, kind, total_credits, advice) ==
  [courseCode |-> "",
   year       |-> ParseInt(year),
   semester   |-> sem_name,
   error      |-> <<kind, total_credits, advice>>,
   severity   |-> "warning"]

\* if total_credits <= 12
LowLoadInclusive(total_credits) == total_credits <= MinCredits

\* if total_credits < 12
LowLoad(total_credits) == total_credits < MinCredits

\* elif total_credits > 18
HighLoad(total_credits) == total_credits > MaxCredits

\* body of the credit-load loop for one timeline item: the warnings it
\* appends, or raised = TRUE when the unpacking or int() raises ValueError
TermWarnings(item) ==
  LET parts == Split(item.key)
      total_credits == Len(item.courses) * CreditsPerCourse
  IN  IF Len(parts) # 2 THEN [raised |-> TRUE, warnings |-> <<>>]
      ELSE LET year == parts[1]
               sem_name == IF parts[2] = <<"1">> THEN "Fall" ELSE "Spring"
           IN  IF LowLoad(total_credits)
               THEN IF IsDigits(year)
                    THEN [raised |-> FALSE,
                          warnings |-> <<LoadWarning(year, sem_name,
                              "Low credit load: ", total_credits,
                              " credits (minimum 12 recommended)")>>]
                    ELSE [raised |-> TRUE, warnings |-> <<>>]
               ELSE IF HighLoad(total_credits)
               THEN IF IsDigits(year)
                    THEN [raised |-> FALSE,
                          warnings |-> <<LoadWarning(year, sem_name,
                              "High credit load: ", total_credits,
                              " credits (maximum 18 recommended)")>>]
                    ELSE [raised |-> TRUE, warnings |-> <<>>]
               ELSE [raised |-> FALSE, warnings |-> <<>>]

\* a credit-load pass that takes the first term for granted
CreditWarningsNeedsTerm(timeline) ==
  IF timeline = <<>> THEN [raised |-> TRUE, warnings |-> <<>>]
  ELSE [raised |-> TermWarnings(Head(timeline)).raised,
        warnings |-> TermWarnings(Head(timeline)).warnings]

\* the credit-load loop run once per course of every term
RECURSIVE CreditWarningsPerCourse(_)
CreditWarningsPerCourse(timeline) ==
  IF timeline = <<>> THEN [raised |-> FALSE, warnings |-> <<>>]
  ELSE LET first == TermWarnings(Head(timeline))
           rest  == CreditWarningsPerCourse(Tail(timeline))
           RECURSIVE Repeat(_, _)
           Repeat(ws, n) == IF n = 0 THEN <<>> ELSE ws \o Repeat(ws, n - 1)
       IN  IF first.raised THEN first
           ELSE IF rest.raised THEN rest
           ELSE [raised |-> FALSE,
                 warnings |-> Repeat(first.warnings, Len(Head(timeline).courses))
                                \o rest.warnings]

\* for semester_key, courses in timeline.items(): ...
RECURSIVE CreditWarnings(_)
CreditWarnings(timeline) ==
  IF timeline = <<>> THEN [raised |-> FALSE, warnings |-> <<>>]
  ELSE LET first == TermWarnings(Head(timeline))
           rest  == CreditWarnings(Tail(timeline))
       IN  IF first.raised THEN first
           ELSE IF rest.raised THEN rest
           ELSE [raised |-> FALSE, warnings |-> first.warnings \o rest.warnings]

\* isValid computed from both lists
PlanValidationResultNoFindings(errors, warnings) ==
  [isValid |-> Len(errors) = 0 /\ Len(warnings) = 0,
   errors |-> errors, warnings |-> warnings]

\* PlanValidationResult(isValid=len(errors) == 0, errors=..., warnings=...)
PlanValidationResult(errors, warnings) ==
  [isValid |-> Len(errors) = 0, errors |-> errors, warnings |-> warnings]

\* the loop `for semester_key in sorted(timeline.keys())` run to its end
RECURSIVE WalkErrors(_, _, _, _, _)
WalkErrors(graph, courses, timeline, keys, completed) ==
  IF keys = <<>> THEN <<>>
  ELSE LET courses_this_semester == TimelineGet(timeline, Head(keys))
       IN  TermErrors(graph, courses, courses_this_semester, completed,
                      courses_this_semester)
           \o WalkErrors(graph, courses, timeline, Tail(keys),
                         CompletedUpdate(completed, courses_this_semester))

\* validate_plan run alone from its first line to its return: <<>> when it
\* raises, else the one-element sequence of the result it returns
ValidatePlan(graph, body) ==
  LET tl   == BuildTimeline(body.courses)
      errs == WalkErrors(graph, body.courses, tl, Sorted(TimelineKeys(tl)), {})
      load == CreditWarnings(tl)
  IN  IF load.raised THEN <<>>
      ELSE <<PlanValidationResult(errs, load.warnings)>>

\* ------------------------------------------- generate-plan course filter
LowerLetters ==
  <<"a", "b", "c", "d", "e", "f", "g", "h", "i", "j", "k", "l", "m",
    "n", "o", "p", "q", "r", "s", "t", "u", "v", "w", "x", "y", "z">>

UpperLetters ==
  <<"A", "B", "C", "D", "E", "F", "G", "H", "I", "J", "K", "L", "M",
    "N", "O", "P", "Q", "R", "S", "T", "U", "V", "W", "X", "Y", "Z">>

\* str.upper() on one character
Upper(ch) ==
  IF \E i \in 1..Len(LowerLetters) : LowerLetters[i] = ch
  THEN UpperLetters[CHOOSE i \in 1..Len(LowerLetters) : LowerLetters[i] = ch]
  ELSE ch

\* code.replace(" ", "")
RemoveSpaces(code) ==
  LET NotSpace(ch) == ch # " "
  IN  SelectSeq(code, NotSpace)

\* code.replace(" ", "").upper()
NormalizeCode(code) ==
  [i \in 1..Len(RemoveSpaces(code)) |-> Upper(RemoveSpaces(code)[i])]

\* d.get(k, default)
Get(d, k, default) == IF k \in DOMAIN d THEN d[k] ELSE default

\* {c.get("courseCode") for c in all_courses if c.get("courseCode")}
ValidCourseCodes(all_courses) ==
  {all_courses[i].courseCode : i \in
     {j \in 1..Len(all_courses) :
        /\ "courseCode" \in DOMAIN all_courses[j]
        /\ all_courses[j].courseCode # <<>>}}

\* any(c.replace(" ", "").upper() == normalized_code for c in valid_course_codes)
CourseExists(course, valid_course_codes) ==
  LET course_code == Get(course, "courseCode", <<>>)
      normalized_code == NormalizeCode(course_code)
  IN  \E c \in valid_course_codes : NormalizeCode(c) = normalized_code

\* a filter that reports the invalid courses and keeps them
ValidateAndFilterCoursesLogOnly(semester_courses, valid_course_codes) ==
  semester_courses

\* validate_and_filter_courses(semester_courses)
RECURSIVE ValidateAndFilterCourses(_, _)
ValidateAndFilterCourses(semester_courses, valid_course_codes) ==
  IF semester_courses = <<>> THEN <<>>
  ELSE (IF CourseExists(Head(semester_courses), valid_course_codes)
        THEN <<Head(semester_courses)>> ELSE <<>>)
       \o ValidateAndFilterCourses(Tail(semester_courses), valid_course_codes)

\* body of `for year_key in [...]`: the year's fall and spring lists filtered
FilterYearData(plan_json, year_key, valid_course_codes) ==
  IF year_key \in DOMAIN plan_json
  THEN LET year_data == plan_json[year_key]
           fall_done ==
             IF "fall" \in DOMAIN year_data
             THEN [year_data EXCEPT !["fall"] =
                     ValidateAndFilterCourses(@, valid_course_codes)]
             ELSE year_data
           spring_done ==
             IF "spring" \in DOMAIN fall_done
             THEN [fall_done EXCEPT !["spring"] =
                     ValidateAndFilterCourses(@, valid_course_codes)]
             ELSE fall_done
       IN  [plan_json EXCEPT ![year_key] = spring_done]
  ELSE plan_json

\* GeneratedPlan(year1=plan_json.get("year1", {"fall": [], "spring": []}), ...)
GeneratedPlan(plan_json) ==
  [year1 |-> Get(plan_json, "year1", [fall |-> <<>>, spring |-> <<>>]),
   year2 |-> Get(plan_json, "year2", [fall |-> <<>>, spring |-> <<>>]),
   year3 |-> Get(plan_json, "year3", [fall |-> <<>>, spring |-> <<>>]),
   year4 |-> Get(plan_json, "year4", [fall |-> <<>>, spring |-> <<>>]),
   reasoning |-> Get(plan_json, "reasoning", ""),
   recommendations |-> Get(plan_json, "recommendations", <<>>)]

\* ----------------------------------------------------------- the boundary
\* PlanCourse: courseCode: str, year: int, semester: str, all required
PlanCourseOk(e) ==
  /\ {"courseCode", "year", "semester"} \subseteq DOMAIN e
  /\ e.year \in Int

\* StudentPlan: courses: List[PlanCourse], startYear: int = 2024
StudentPlanOk(body) == \A i \in 1..Len(body.courses) : PlanCourseOk(body.courses[i])

\* ------------------------------------------------------------------ inputs
RECURSIVE SeqsUpTo(_, _)
SeqsUpTo(S, n) ==
  IF n = 0 THEN {<<>>}
  ELSE LET shorter == SeqsUpTo(S, n - 1)
       IN  shorter \cup {Append(q, x) : q \in shorter, x \in S}

\* entries of a structurally valid plan: CS 2100 and CS 2120, which depends
\* on it, one course outside the graph, over the terms 1-Fall, 1-Spring,
\* 2-Fall (calendar order) and 10-Fall (a year with more digits)
GeneralCodes == {"CS 2100", "CS 2120"}

GeneralEntries ==
  [courseCode : GeneralCodes, year : {2}, semester : {"Fall"}]
    \cup {[courseCode |-> "CS 2100", year |-> 1, semester |-> "Fall"],
          [courseCode |-> "CS 2100", year |-> 1, semester |-> "Spring"],
          [courseCode |-> "CS 2120", year |-> 10, semester |-> "Fall"],
          [courseCode |-> "ENWR 1510", year |-> 1, semester |-> "Fall"]}

\* one course code outside the graph, repeated to fill a term
LoadEntries ==
  [courseCode : {"ENWR 1510"}, year : {1}, semester : {"Fall", "Spring"}]

\* what the request body may carry: any int, any str, a missing field
RawEntries ==
  [courseCode : {"CS 2100"},
   year       : {-1, 0, 1},
   semester   : {"Fall", "Spring"}]
  \cup {[courseCode |-> "CS 1110", year |-> 1, semester |-> "Fall"],
        [courseCode |-> "CS 2100", year |-> 1, semester |-> "Summer"],
        [courseCode |-> "CS 2100", year |-> 1, semester |-> "fall"],
        [courseCode |-> "CS 2100", year |-> 1]}

\* a course with two prerequisites and one of them, over two terms
OrderEntries ==
  [courseCode : {"CS 3100", "CS 2100"}, year : {1}, semester : {"Fall", "Spring"}]

\* a course taken twice, in year 2 and in year 10, and a course that needs it
RetakeEntries ==
  {[courseCode |-> "CS 2100", year |-> 2, semester |-> "Fall"],
   [courseCode |-> "CS 2100", year |-> 10, semester |-> "Spring"],
   [courseCode |-> "CS 2120", year |-> 10, semester |-> "Fall"]}

CourseLists ==
  SeqsUpTo(GeneralEntries, MaxLen) \cup SeqsUpTo(LoadEntries, MaxLoad)
    \cup SeqsUpTo(RawEntries, MaxRaw)
    \cup SeqsUpTo(OrderEntries, MaxLen) \cup SeqsUpTo(RetakeEntries, MaxLen)

Reverse(s) == [i \in 1..Len(s) |-> s[Len(s) + 1 - i]]

\* the second request carries the same entries, in the same or reverse order
Reorderings(courses) == {courses, Reverse(courses)}

StudentPlan(courses) == [courses |-> courses, startYear |-> 2024]

\* the second request repeats the first body, or reorders its entries, or
\* keeps the entries and names another startYear
SecondRequests(first) ==
  {StudentPlan(second) : second \in Reorderings(first)}
    \cup {[courses |-> first, startYear |-> 2025]}

\* courses of a generated plan: a catalog code as the catalog writes it, the
\* same code in another spelling, an invented code, a course without a code
GenCourses ==
  {[courseCode |-> <<"C", "S", " ", "1">>],
   [courseCode |-> <<"c", "s", "1">>],
   [courseCode |-> <<"C", "S", " ", "9">>],
   [name |-> "Elective"]}

\* what the database returns: nothing, one course, or rows of which one has
\* an empty code and one has none
Catalogs ==
  {<<>>,
   <<[courseCode |-> <<"C", "S", " ", "1">>]>>,
   <<[courseCode |-> <<"c", "s", " ", "1">>],
     [courseCode |-> <<"C", "S", " ", "2">>],
     [courseCode |-> <<>>],
     [name |-> "Untitled"]>>}

\* the JSON object of the response: year3 is absent, year2 has no spring
\* list, year4 has no fall list and has a summer list
Responses ==
  {[year1 |-> [fall |-> f, spring |-> s],
    year2 |-> [fall |-> s],
    year4 |-> [spring |-> f, summer |-> f],
    reasoning |-> "text",
    recommendations |-> <<>>] :
     f \in SeqsUpTo(GenCourses, MaxCourses),
     s \in {<<>>, <<[courseCode |-> <<"C", "S", " ", "9">>]>>}}

\* ------------------------------------------------------------------- state
VARIABLES
  course_graph,   \* validator.course_graph
  plan,           \* plan[c]: the StudentPlan body of request c
  pc,             \* pc[c]: "idle", "walk", "credit", "done", "rejected", "raised"
  timeline,       \* timeline[c]: the local dict of call c
  walk,           \* walk[c]: the sorted keys the loop has still to visit
  completed,      \* completed[c]: the local set of call c
  errors,         \* errors[c]: the local list of call c
  result,         \* result[c]: <<>> or <<the PlanValidationResult returned>>
  all_courses,    \* generate-plan: the catalog rows fetched for the request
  response_text,  \* generate-plan: the JSON object the response text holds
  plan_json,      \* generate-plan: the parsed object, filtered in place
  valid_course_codes,
  year_keys,      \* generate-plan: the year keys the loop has still to visit
  gen_pc,         \* "none", "called", "filter", "returned"
  generated       \* <<>> or <<the GeneratedPlan returned>>

valvars == <<course_graph, plan, pc, timeline, walk, completed, errors, result>>

genvars == <<all_courses, response_text, plan_json, valid_course_codes,
             year_keys, gen_pc, generated>>

vars == <<course_graph, plan, pc, timeline, walk, completed, errors, result,
          all_courses, response_text, plan_json, valid_course_codes,
          year_keys, gen_pc, generated>>

Init ==
  /\ course_graph = BuildCourseGraph
  /\ \/ /\ \E first \in CourseLists : \E second \in SecondRequests(first) :
             plan = [c \in Calls |-> IF c = 1 THEN StudentPlan(first) ELSE second]
        /\ gen_pc = "none"
        /\ all_courses = <<>>
        /\ response_text = <<>>
     \/ /\ plan = [c \in Calls |-> StudentPlan(<<>>)]
        /\ gen_pc = "called"
        /\ all_courses \in Catalogs
        /\ response_text \in Responses
  /\ plan_json = <<>>
  /\ valid_course_codes = {}
  /\ year_keys = <<>>
  /\ generated = <<>>
  /\ pc = [c \in Calls |-> "idle"]
  /\ timeline = [c \in Calls |-> <<>>]
  /\ walk = [c \in Calls |-> <<>>]
  /\ completed = [c \in Calls |-> {}]
  /\ errors = [c \in Calls |-> <<>>]
  /\ result = [c \in Calls |-> <<>>]

\* ----------------------------------------------------------------- actions
\* POST /api/validate-plan with a body the StudentPlan model refuses: 422
Reject(c) ==
  /\ pc[c] = "idle"
  /\ ~StudentPlanOk(plan[c])
  /\ pc' = [pc EXCEPT ![c] = "rejected"]
  /\ UNCHANGED <<course_graph, plan, timeline, walk, completed, errors, result>>
  /\ UNCHANGED genvars

\* grouping with `completed` kept on the validator: the call starts from
\* what the calls before it left there
GroupKeepsCompleted(c) ==
  /\ pc[c] = "idle"
  /\ StudentPlanOk(plan[c])
  /\ LET tl == BuildTimeline(plan[c].courses)
     IN  /\ timeline' = [timeline EXCEPT ![c] = tl]
         /\ walk' = [walk EXCEPT ![c] = Sorted(TimelineKeys(tl))]
         /\ pc' = [pc EXCEPT ![c] = IF tl = <<>> THEN "credit" ELSE "walk"]
  /\ completed' = [completed EXCEPT ![c] = UNION {completed[d] : d \in Calls}]
  /\ errors' = [errors EXCEPT ![c] = <<>>]
  /\ UNCHANGED <<course_graph, plan, result>>
  /\ UNCHANGED genvars

\* grouping by calendar year: plan.startYear + course.year - 1
GroupFromStartYear(c) ==
  /\ pc[c] = "idle"
  /\ StudentPlanOk(plan[c])
  /\ LET tl == BuildTimeline(
                 [i \in 1..Len(plan[c].courses) |->
                    [plan[c].courses[i] EXCEPT
                       !.year = plan[c].startYear + @ - 1]])
     IN  /\ timeline' = [timeline EXCEPT ![c] = tl]
         /\ walk' = [walk EXCEPT ![c] = Sorted(TimelineKeys(tl))]
         /\ pc' = [pc EXCEPT ![c] = IF tl = <<>> THEN "credit" ELSE "walk"]
  /\ completed' = [completed EXCEPT ![c] = {}]
  /\ errors' = [errors EXCEPT ![c] = <<>>]
  /\ UNCHANGED <<course_graph, plan, result>>
  /\ UNCHANGED genvars

\* the endpoint hands the parsed plan to validator.validate_plan, which
\* groups the entries and sorts the keys (lines 170-183)
Group(c) ==
  /\ pc[c] = "idle"
  /\ StudentPlanOk(plan[c])
  /\ LET tl == BuildTimeline(plan[c].courses)
     IN  /\ timeline' = [timeline EXCEPT ![c] = tl]
         /\ walk' = [walk EXCEPT ![c] = Sorted(TimelineKeys(tl))]
         /\ pc' = [pc EXCEPT ![c] = IF tl = <<>> THEN "credit" ELSE "walk"]
  /\ completed' = [completed EXCEPT ![c] = {}]
  /\ errors' = [errors EXCEPT ![c] = <<>>]
  /\ UNCHANGED <<course_graph, plan, result>>
  /\ UNCHANGED genvars

\* the iteration with `completed` read from every call in flight
CheckTermSharedCompleted(c) ==
  /\ pc[c] = "walk"
  /\ LET semester_key == Head(walk[c])
         courses_this_semester == TimelineGet(timeline[c], semester_key)
     IN  /\ errors' = [errors EXCEPT ![c] =
               @ \o TermErrors(course_graph, plan[c].courses,
                               courses_this_semester,
                               UNION {completed[d] : d \in Calls},
                               courses_this_semester)]
         /\ completed' = [completed EXCEPT ![c] =
               CompletedUpdate(@, courses_this_semester)]
  /\ walk' = [walk EXCEPT ![c] = Tail(@)]
  /\ pc' = [pc EXCEPT ![c] = IF Tail(walk[c]) = <<>> THEN "credit" ELSE "walk"]
  /\ UNCHANGED <<course_graph, plan, timeline, result>>
  /\ UNCHANGED genvars

\* the iteration with self.course_graph.setdefault(course_code, [])
CheckTermSetDefault(c) ==
  /\ pc[c] = "walk"
  /\ LET semester_key == Head(walk[c])
         courses_this_semester == TimelineGet(timeline[c], semester_key)
     IN  /\ errors' = [errors EXCEPT ![c] =
               @ \o TermErrors(course_graph, plan[c].courses,
                               courses_this_semester, completed[c],
                               courses_this_semester)]
         /\ completed' = [completed EXCEPT ![c] =
               CompletedUpdate(@, courses_this_semester)]
         /\ course_graph' =
               [k \in DOMAIN course_graph
                    \cup {courses_this_semester[i] :
                            i \in 1..Len(courses_this_semester)} |->
                  GraphGet(course_graph, k)]
  /\ walk' = [walk EXCEPT ![c] = Tail(@)]
  /\ pc' = [pc EXCEPT ![c] = IF Tail(walk[c]) = <<>> THEN "credit" ELSE "walk"]
  /\ UNCHANGED <<plan, timeline, result>>
  /\ UNCHANGED genvars

\* one iteration of `for semester_key in sorted(timeline.keys())`
CheckTerm(c) ==
  /\ pc[c] = "walk"
  /\ LET semester_key == Head(walk[c])
         courses_this_semester == TimelineGet(timeline[c], semester_key)
     IN  /\ errors' = [errors EXCEPT ![c] =
               @ \o TermErrors(course_graph, plan[c].courses,
                               courses_this_semester, completed[c],
                               courses_this_semester)]
         /\ completed' = [completed EXCEPT ![c] =
               CompletedUpdate(@, courses_this_semester)]
  /\ walk' = [walk EXCEPT ![c] = Tail(@)]
  /\ pc' = [pc EXCEPT ![c] = IF Tail(walk[c]) = <<>> THEN "credit" ELSE "walk"]
  /\ UNCHANGED <<course_graph, plan, timeline, result>>
  /\ UNCHANGED genvars

\* the credit-load loop and the return statement
CreditPass(c) ==
  /\ pc[c] = "credit"
  /\ LET load == CreditWarnings(timeline[c])
     IN  IF load.raised
         THEN /\ pc' = [pc EXCEPT ![c] = "raised"]
              /\ UNCHANGED result
         ELSE /\ pc' = [pc EXCEPT ![c] = "done"]
              /\ result' = [result EXCEPT ![c] =
                    <<PlanValidationResult(errors[c], load.warnings)>>]
  /\ UNCHANGED <<course_graph, plan, timeline, walk, completed, errors>>
  /\ UNCHANGED genvars

\* generate_four_year_plan from the parsing of the response to the filter
\* loop: plan_json and valid_course_codes are set
ParseResponse ==
  /\ gen_pc = "called"
  /\ plan_json' = response_text
  /\ valid_course_codes' = ValidCourseCodes(all_courses)
  /\ year_keys' = <<"year1", "year2", "year3", "year4">>
  /\ gen_pc' = "filter"
  /\ UNCHANGED <<all_courses, response_text, generated>>
  /\ UNCHANGED valvars

\* one iteration of `for year_key in ["year1", "year2", "year3", "year4"]`
FilterYear ==
  /\ gen_pc = "filter"
  /\ year_keys # <<>>
  /\ plan_json' = FilterYearData(plan_json, Head(year_keys), valid_course_codes)
  /\ year_keys' = Tail(year_keys)
  /\ UNCHANGED <<all_courses, response_text, valid_course_codes, gen_pc, generated>>
  /\ UNCHANGED valvars

\* return GeneratedPlan(...)
ReturnPlan ==
  /\ gen_pc = "filter"
  /\ year_keys = <<>>
  /\ generated' = <<GeneratedPlan(plan_json)>>
  /\ gen_pc' = "returned"
  /\ UNCHANGED <<all_courses, response_text, plan_json, valid_course_codes, year_keys>>
  /\ UNCHANGED valvars

Next ==
  \/ \E c \in Calls : Reject(c) \/ Group(c) \/ CheckTerm(c) \/ CreditPass(c)
  \/ ParseResponse
  \/ FilterYear
  \/ ReturnPlan

Spec == Init /\ [][Next]_vars

\* ------------------------------------------------- vocabulary of the claims
Done(c) == pc[c] = "done"
Res(c) == result[c][1]
Courses(c) == plan[c].courses

\* a PlannedCourse of the data model: positive year, Fall or Spring
WellFormedEntry(e) ==
  /\ PlanCourseOk(e)
  /\ e.year > 0
  /\ e.semester \in {"Fall", "Spring"}

WellFormedPlan(c) == \A i \in 1..Len(Courses(c)) : WellFormedEntry(Courses(c)[i])

SameTerm(e, f) == e.year = f.year /\ e.semester = f.semester

\* calendar order of terms: year first, then Fall before Spring
TermOrdinal(semester) == IF semester = "Fall" THEN 1 ELSE 2

EarlierTerm(e, f) ==
  \/ e.year < f.year
  \/ e.year = f.year /\ TermOrdinal(e.semester) < TermOrdinal(f.semester)

NoRepeatedCode(c) ==
  \A i, j \in 1..Len(Courses(c)) :
    Courses(c)[i].courseCode = Courses(c)[j].courseCode => i = j

Names(finding, prereq) == finding.error = <<"Missing prerequisite: ", prereq>>

Prereqs(course_code) ==
  {GraphGet(BuildCourseGraph, course_code)[i] :
     i \in 1..Len(GraphGet(BuildCourseGraph, course_code))}

\* the errors call c appends in the step from the current state to the next
NewErrors(c) == {errors'[c][k] : k \in (Len(errors[c]) + 1)..Len(errors'[c])}

\* the entries of call c placed in the term the walk visits next
EntriesChecked(c) ==
  {Courses(c)[i] : i \in {j \in 1..Len(Courses(c)) :
                            SemesterKey(Courses(c)[j]) = Head(walk[c])}}

\* the entries of call c placed in terms the walk has already visited
EntriesVisited(c) ==
  {Courses(c)[i] : i \in {j \in 1..Len(Courses(c)) :
       ~InList(SemesterKey(Courses(c)[j]), walk[c])}}

EntryCount(c, e) ==
  Cardinality({i \in 1..Len(Courses(c)) : SameTerm(Courses(c)[i], e)})

WarningsFor(c, e, kind) ==
  {k \in 1..Len(Res(c).warnings) :
     /\ Res(c).warnings[k].year = e.year
     /\ Res(c).warnings[k].semester = e.semester
     /\ Res(c).warnings[k].error[1] = kind}

\* --------------------------------------------------------------- claims

\* C1: for every entry of course C in term T and every prerequisite P of C,
\* the result holds an Error for C at T naming P iff P is placed neither in
\* a term before T in calendar order nor in T; there is no other Error.
C1_ErrorIffPrereqNotPlacedByThen ==
  \A c \in Calls : (Done(c) /\ WellFormedPlan(c)) =>
    /\ \A i \in 1..Len(Courses(c)) : \A P \in Prereqs(Courses(c)[i].courseCode) :
         (\E k \in 1..Len(Res(c).errors) :
             /\ Res(c).errors[k].courseCode = Courses(c)[i].courseCode
             /\ SameTerm(Res(c).errors[k], Courses(c)[i])
             /\ Names(Res(c).errors[k], P))
         <=> ~ \E j \in 1..Len(Courses(c)) :
                 /\ Courses(c)[j].courseCode = P
                 /\ \/ EarlierTerm(Courses(c)[j], Courses(c)[i])
                    \/ SameTerm(Courses(c)[j], Courses(c)[i])
    /\ \A k \in 1..Len(Res(c).errors) :
         \E i \in 1..Len(Courses(c)) :
           /\ Res(c).errors[k].courseCode = Courses(c)[i].courseCode
           /\ SameTerm(Res(c).errors[k], Courses(c)[i])
           /\ \E P \in Prereqs(Courses(c)[i].courseCode) :
                Names(Res(c).errors[k], P)

\* C2: in every returned result isValid is true iff the errors list is
\* empty, whatever the warnings are.
C2_IsValidIffNoErrors ==
  \A c \in Calls : Done(c) => (Res(c).isValid <=> Res(c).errors = <<>>)

C2_Witness ==
  \E c \in Calls :
    /\ Done(c)
    /\ Res(c).isValid
    /\ Res(c).warnings # <<>>
    /\ Courses(c) # <<>>

\* C3: terms are visited in calendar order compared numerically: in a plan
\* of distinct courses, a course has an Error naming a prerequisite placed
\* in another term iff that term is not the earlier one.
C3_WalkIsCalendarOrder ==
  \A c \in Calls : (Done(c) /\ WellFormedPlan(c) /\ NoRepeatedCode(c)) =>
    \A i, j \in 1..Len(Courses(c)) :
      (/\ Courses(c)[j].courseCode \in Prereqs(Courses(c)[i].courseCode)
       /\ ~SameTerm(Courses(c)[i], Courses(c)[j]))
      => ((\E k \in 1..Len(Res(c).errors) :
              /\ Res(c).errors[k].courseCode = Courses(c)[i].courseCode
              /\ Names(Res(c).errors[k], Courses(c)[j].courseCode))
          <=> ~EarlierTerm(Courses(c)[j], Courses(c)[i]))

\* C4: two plans with the same entries in a different order get the same
\* result: the same isValid, errors sequence and warnings sequence.
SameEntries(p, q) ==
  /\ Len(p) = Len(q)
  /\ \A i \in 1..Len(p) :
       Cardinality({k \in 1..Len(p) : p[k] = p[i]})
         = Cardinality({k \in 1..Len(q) : q[k] = p[i]})

C4_ReorderingKeepsResult ==
  (/\ Done(1) /\ Done(2)
   /\ WellFormedPlan(1)
   /\ SameEntries(Courses(1), Courses(2)))
    => Res(1) = Res(2)

\* C5: a plan with an entry whose semester is neither Fall nor Spring or
\* whose year is not positive never gets past the boundary: the request is
\* rejected and validate_plan does not run on it.
C5_MalformedEntryRejected ==
  \A c \in Calls :
    (\E i \in 1..Len(Courses(c)) : ~WellFormedEntry(Courses(c)[i]))
      => pc[c] \in {"idle", "rejected"}

\* C6: every Error appended while a term is checked carries the year and
\* the semester of that term, also when its course is placed in other terms.
C6_ErrorCarriesCheckedTerm ==
  [][\A c \in Calls : (pc[c] = "walk" /\ WellFormedPlan(c)) =>
       \A f \in NewErrors(c) : \A e \in EntriesChecked(c) : SameTerm(f, e)]_vars

\* C7: a plan whose entries all have a positive year and a semester of Fall
\* or Spring is never refused and never makes validate_plan raise; what it
\* returns is a result whose errors and warnings are findings.
C7_WellFormedPlanNeverRaises ==
  \A c \in Calls : WellFormedPlan(c) =>
    /\ pc[c] \notin {"raised", "rejected"}
    /\ pc[c] = "done" <=> Len(result[c]) = 1
    /\ Done(c) =>
         /\ \A k \in 1..Len(Res(c).errors) : Res(c).errors[k].severity = "error"
         /\ \A k \in 1..Len(Res(c).warnings) :
              Res(c).warnings[k].severity = "warning"

C7_Witness ==
  \E c \in Calls :
    /\ Done(c)
    /\ WellFormedPlan(c)
    /\ ~NoRepeatedCode(c)
    /\ \E i, j \in 1..Len(Courses(c)) :
         /\ Courses(c)[i].courseCode = Courses(c)[j].courseCode
         /\ ~SameTerm(Courses(c)[i], Courses(c)[j])
    /\ Res(c).errors # <<>>
    /\ Res(c).warnings # <<>>

\* C8: while a term is checked no Error is appended for a course of that
\* term naming a prerequisite that is placed in the same term, whatever the
\* order of the two entries in the plan.
C8_SameTermPrereqSatisfies ==
  [][\A c \in Calls : (pc[c] = "walk" /\ WellFormedPlan(c)) =>
       \A e, p \in EntriesChecked(c) :
         p.courseCode \in Prereqs(e.courseCode) =>
           ~ \E f \in NewErrors(c) :
               f.courseCode = e.courseCode /\ Names(f, p.courseCode)]_vars

C8_Witness ==
  \E c \in Calls :
    /\ Done(c)
    /\ Len(Courses(c)) = 2
    /\ Courses(c)[1].courseCode = "CS 2120"
    /\ Courses(c)[2].courseCode = "CS 2100"
    /\ SameTerm(Courses(c)[1], Courses(c)[2])
    /\ Len(Res(c).errors) = 1
    /\ Res(c).errors[1].courseCode = "CS 2100"

C10_CreditBand ==
  \A c \in Calls : (Done(c) /\ WellFormedPlan(c)) =>
    \A i \in 1..Len(Courses(c)) :
      LET n == EntryCount(c, Courses(c)[i])
      IN  /\ WarningsFor(c, Courses(c)[i], "Low credit load: ") # {} <=> 3 * n < 12
          /\ WarningsFor(c, Courses(c)[i], "High credit load: ") # {} <=> 3 * n > 18
          /\ (4 <= n /\ n <= 6) =>
               ~ \E k \in 1..Len(Res(c).warnings) :
                   SameTerm(Res(c).warnings[k], Courses(c)[i])

C10_Witness ==
  \E c \in Calls :
    /\ Done(c)
    /\ \E i, j \in 1..Len(Courses(c)) :
         /\ EntryCount(c, Courses(c)[i]) = 4
         /\ EntryCount(c, Courses(c)[j]) = 3
    /\ Len(Res(c).warnings) = 1

\* C11: validating the empty plan neither is refused nor raises, and what
\* it returns is isValid = true with no errors and no warnings.
C11_EmptyPlanIsValid ==
  \A c \in Calls : Courses(c) = <<>> =>
    /\ pc[c] \notin {"raised", "rejected"}
    /\ Done(c) =>
         Res(c) = [isValid |-> TRUE, errors |-> <<>>, warnings |-> <<>>]

C11_Witness == \E c \in Calls : Done(c) /\ Courses(c) = <<>>

\* C12: a course code without an entry in the prerequisite graph never is
\* the courseCode of an Error, in any plan, and once its term has been
\* visited it is in the completed set like any other course.
Started(c) == pc[c] \in {"walk", "credit", "done", "raised"}

C12_UnknownCourseNoError ==
  \A c \in Calls : Started(c) =>
    /\ \A k \in 1..Len(errors[c]) :
         errors[c][k].courseCode \in DOMAIN BuildCourseGraph
    /\ Done(c) =>
         \A k \in 1..Len(Res(c).errors) :
           Res(c).errors[k].courseCode \in DOMAIN BuildCourseGraph
    /\ \A m \in EntriesVisited(c) :
         m.courseCode \notin DOMAIN BuildCourseGraph
           => m.courseCode \in completed[c]

C12_Witness ==
  \E c \in Calls :
    /\ Done(c)
    /\ "ENWR 1510" \in completed[c]
    /\ "CS 2120" \in completed[c]
    /\ Res(c).errors # <<>>

\* C13: whatever the interleaving of the two calls, a call that returns
\* returns the result validate_plan gives for its plan when run alone, and
\* a call that raises is one that raises when run alone.
C13_InterleavedCallsAsAlone ==
  \A c \in Calls :
    /\ pc[c] = "done" => result[c] = ValidatePlan(BuildCourseGraph, plan[c])
    /\ pc[c] = "raised" => ValidatePlan(BuildCourseGraph, plan[c]) = <<>>

C13_Witness ==
  /\ Done(1)
  /\ Res(1).errors # <<>>
  /\ pc[2] = "walk"
  /\ completed[2] # {}
  /\ errors[2] # <<>>

\* C14: validate_plan has no side effects: the prerequisite graph always is
\* the graph built at initialization and no step changes a plan passed in.
C14_NoSideEffects ==
  /\ [](course_graph = BuildCourseGraph)
  /\ [][plan' = plan]_vars

C14_Witness ==
  /\ Done(1)
  /\ Done(2)
  /\ \E i, j \in 1..Len(Courses(1)) :
       /\ Courses(1)[i].courseCode \notin DOMAIN BuildCourseGraph
       /\ Courses(1)[j].courseCode \in DOMAIN BuildCourseGraph

\* C15: two calls with the same plan return identical results: the same
\* isValid, the same errors and the same warnings in the same order.
C15_RepeatedCallSameResult ==
  (Done(1) /\ Done(2) /\ plan[1] = plan[2]) => result[1] = result[2]

C15_Witness ==
  /\ Done(1)
  /\ Done(2)
  /\ plan[1] = plan[2]
  /\ Len(Courses(1)) >= 2
  /\ Courses(1) # Reverse(Courses(1))
  /\ Res(2).errors # <<>>

\* C16: in a plan where no course code appears twice, the errors list has
\* exactly one Error for each course C and prerequisite P of C that is
\* placed neither in an earlier term nor in the term of C, and nothing else.
Unmet(c, i, P) ==
  ~ \E j \in 1..Len(Courses(c)) :
      /\ Courses(c)[j].courseCode = P
      /\ \/ EarlierTerm(Courses(c)[j], Courses(c)[i])
         \/ SameTerm(Courses(c)[j], Courses(c)[i])

C16_OneErrorPerUnmetPair ==
  \A c \in Calls : (Done(c) /\ WellFormedPlan(c) /\ NoRepeatedCode(c)) =>
    /\ \A i \in 1..Len(Courses(c)) : \A P \in Prereqs(Courses(c)[i].courseCode) :
         Cardinality({k \in 1..Len(Res(c).errors) :
                        /\ Res(c).errors[k].courseCode = Courses(c)[i].courseCode
                        /\ Names(Res(c).errors[k], P)})
           = IF Unmet(c, i, P) THEN 1 ELSE 0
    /\ \A k \in 1..Len(Res(c).errors) :
         \E i \in 1..Len(Courses(c)) :
           /\ Res(c).errors[k].courseCode = Courses(c)[i].courseCode
           /\ \E P \in Prereqs(Courses(c)[i].courseCode) :
                Names(Res(c).errors[k], P) /\ Unmet(c, i, P)

\* C17: the warnings list is in calendar order of terms: a warning that
\* precedes another one is for the earlier term, whatever the entry order.
C17_WarningsInCalendarOrder ==
  \A c \in Calls : (Done(c) /\ WellFormedPlan(c)) =>
    \A i, j \in 1..Len(Res(c).warnings) :
      i < j => EarlierTerm(Res(c).warnings[i], Res(c).warnings[j])

\* C18: every finding in warnings has an empty courseCode and severity
\* "warning"; every finding in errors has severity "error" and the
\* courseCode of a course that occurs in the plan.
C18_FindingsInTheirList ==
  \A c \in Calls : Done(c) =>
    /\ \A k \in 1..Len(Res(c).warnings) :
         /\ Res(c).warnings[k].courseCode = ""
         /\ Res(c).warnings[k].severity = "warning"
    /\ \A k \in 1..Len(Res(c).errors) :
         /\ Res(c).errors[k].severity = "error"
         /\ \E i \in 1..Len(Courses(c)) :
              Courses(c)[i].courseCode = Res(c).errors[k].courseCode

C18_Witness ==
  \E c \in Calls :
    /\ Done(c)
    /\ Len(Res(c).errors) >= 2
    /\ Len(Res(c).warnings) >= 2

\* C19: two plans with the same course entries and different startYear
\* values get identical results, and one raises only if the other does.
C19_StartYearIgnored ==
  (Courses(1) = Courses(2) /\ plan[1].startYear # plan[2].startYear) =>
    /\ (Done(1) /\ Done(2)) => result[1] = result[2]
    /\ ~(Done(1) /\ pc[2] = "raised")
    /\ ~(Done(2) /\ pc[1] = "raised")

C19_Witness ==
  /\ Done(1)
  /\ Done(2)
  /\ Courses(1) = Courses(2)
  /\ plan[1].startYear # plan[2].startYear
  /\ Res(1).errors # <<>>
  /\ Res(1).warnings # <<>>

\* C20: once a call has grouped its plan, completed is exactly the set of
\* course codes placed in the terms the walk has visited, in particular when
\* the next term starts being checked, and no step removes a course from it.
C20_CompletedIsVisitedCourses ==
  /\ [](\A c \in Calls : Started(c) =>
          completed[c] = {m.courseCode : m \in EntriesVisited(c)})
  /\ [][\A c \in Calls : Started(c) => completed[c] \subseteq completed'[c]]_vars

C20_Witness ==
  \E c \in Calls :
    /\ pc[c] = "walk"
    /\ completed[c] # {}
    /\ Len(walk[c]) >= 2
    /\ \E e \in EntriesChecked(c) : e.courseCode \notin completed[c]

\* C21: errors are listed in discovery order: a step of the walk only appends
\* to the errors found so far, what it appends follows the order of the
\* term's entries in the plan and, for one entry, the order of the course's
\* prerequisites in the graph, and the result returns the list as it stands.
CheckedInPlanOrder(c) ==
  LET InTerm(e) == SemesterKey(e) = Head(walk[c])
  IN  SelectSeq(Courses(c), InTerm)

RECURSIVE PairsInOrder(_)
PairsInOrder(entries) ==
  IF entries = <<>> THEN <<>>
  ELSE [i \in 1..Len(GraphGet(BuildCourseGraph, Head(entries).courseCode)) |->
          <<Head(entries).courseCode,
            GraphGet(BuildCourseGraph, Head(entries).courseCode)[i]>>]
       \o PairsInOrder(Tail(entries))

AppendedPairs(c) ==
  [k \in 1..(Len(errors'[c]) - Len(errors[c])) |->
     <<errors'[c][Len(errors[c]) + k].courseCode,
       errors'[c][Len(errors[c]) + k].error[2]>>]

C21_ErrorsInDiscoveryOrder ==
  /\ [](\A c \in Calls : Done(c) => Res(c).errors = errors[c])
  /\ [][\A c \in Calls : pc[c] = "walk" =>
         /\ Len(errors'[c]) >= Len(errors[c])
         /\ SubSeq(errors'[c], 1, Len(errors[c])) = errors[c]
         /\ LET Appended(pair) ==
                  \E k \in 1..Len(AppendedPairs(c)) : AppendedPairs(c)[k] = pair
            IN  AppendedPairs(c)
                  = SelectSeq(PairsInOrder(CheckedInPlanOrder(c)), Appended)]_vars

C21_Witness ==
  \E c \in Calls :
    /\ Done(c)
    /\ Len(Res(c).errors) = 4
    /\ Res(c).errors[1].courseCode = "CS 3100"
    /\ Names(Res(c).errors[1], "CS 2100")
    /\ Names(Res(c).errors[2], "CS 2120")
    /\ Res(c).errors[3].courseCode = "CS 3100"
    /\ Res(c).errors[4].courseCode = "CS 2100"

\* C22: term keys round-trip on plans of positive years and Fall or Spring:
\* the timeline has one group per distinct (year, semester) holding exactly
\* the entries of that term, the key of an entry decodes to its year and
\* semester, and every Warning carries the year and semester of the term
\* whose credit total it reports.
TermsOf(c) ==
  {<<Courses(c)[i].year, Courses(c)[i].semester>> : i \in 1..Len(Courses(c))}

CodesOfTerm(c, e) ==
  LET InTerm(f) == SameTerm(f, e)
      entries == SelectSeq(Courses(c), InTerm)
  IN  [k \in 1..Len(entries) |-> entries[k].courseCode]

OutOfBand(n) == 3 * n < 12 \/ 3 * n > 18

C22_TermKeyRoundTrip ==
  \A c \in Calls : (Started(c) /\ WellFormedPlan(c)) =>
    /\ Len(timeline[c]) = Cardinality(TermsOf(c))
    /\ \A i \in 1..Len(Courses(c)) :
         LET e == Courses(c)[i]
             parts == Split(SemesterKey(e))
         IN  /\ \E k \in 1..Len(timeline[c]) :
                  /\ timeline[c][k].key = SemesterKey(e)
                  /\ timeline[c][k].courses = CodesOfTerm(c, e)
             /\ Len(parts) = 2
             /\ ParseInt(parts[1]) = e.year
             /\ (IF parts[2] = <<"1">> THEN "Fall" ELSE "Spring") = e.semester
    /\ Done(c) =>
         /\ Len(Res(c).warnings)
              = Cardinality({i \in 1..Len(timeline[c]) :
                               OutOfBand(Len(timeline[c][i].courses))})
         /\ \A k \in 1..Len(Res(c).warnings) :
              \E i \in 1..Len(Courses(c)) :
                /\ SameTerm(Res(c).warnings[k], Courses(c)[i])
                /\ Res(c).warnings[k].error[2] = 3 * EntryCount(c, Courses(c)[i])

C22_Witness ==
  \E c \in Calls :
    /\ Done(c)
    /\ WellFormedPlan(c)
    /\ Len(Res(c).warnings) = 3
    /\ \E k, l \in 1..3 :
         /\ Res(c).warnings[k].year = 10
         /\ Res(c).warnings[k].semester = "Fall"
         /\ Res(c).warnings[l].year = 1
         /\ Res(c).warnings[l].semester = "Spring"
    /\ \E k \in 1..3 :
         Res(c).warnings[k].year = 1 /\ Res(c).warnings[k].semester = "Fall"

\* C23: the credit total a Warning shows for a term is the number of plan
\* entries in that term times 3, an entry repeated in the term counted once
\* per occurrence, and the term is warned about iff that product is below 12
\* or above 18.
C23_CreditTotalIsEntriesTimesThree ==
  \A c \in Calls : (Done(c) /\ WellFormedPlan(c)) =>
    /\ \A k \in 1..Len(Res(c).warnings) :
         \E i \in 1..Len(Courses(c)) :
           /\ SameTerm(Res(c).warnings[k], Courses(c)[i])
           /\ Res(c).warnings[k].error[2]
                = CreditsPerCourse * EntryCount(c, Courses(c)[i])
    /\ \A i \in 1..Len(Courses(c)) :
         (\E k \in 1..Len(Res(c).warnings) :
             SameTerm(Res(c).warnings[k], Courses(c)[i]))
           <=> (\/ CreditsPerCourse * EntryCount(c, Courses(c)[i]) < 12
                \/ CreditsPerCourse * EntryCount(c, Courses(c)[i]) > 18)

C23_Witness ==
  \E c \in Calls :
    /\ Done(c)
    /\ Len(Courses(c)) = 7
    /\ \A i \in 1..7 : Courses(c)[i] = Courses(c)[1]
    /\ Len(Res(c).warnings) = 1
    /\ Res(c).warnings[1].error
         = <<"High credit load: ", 21, " credits (maximum 18 recommended)">>

\* C24: a course code placed in two different terms has each placement
\* processed on its own: while the term of a placement is checked, an Error
\* for it naming a prerequisite is appended iff that prerequisite is neither
\* completed by then nor placed in that term; each placement counts in the
\* credit total of its own term; and the code counts as completed, no Error
\* naming it is appended, while any term later in the calendar than its
\* earliest placement is checked.
Retaken(c, course_code) ==
  \E i, j \in 1..Len(Courses(c)) :
    /\ Courses(c)[i].courseCode = course_code
    /\ Courses(c)[j].courseCode = course_code
    /\ ~SameTerm(Courses(c)[i], Courses(c)[j])

C24_RetakenCourseEachPlacement ==
  /\ [](\A c \in Calls : (Done(c) /\ WellFormedPlan(c)) =>
          \A i \in 1..Len(Courses(c)) :
            Retaken(c, Courses(c)[i].courseCode) =>
              /\ (\E k \in 1..Len(Res(c).warnings) :
                      SameTerm(Res(c).warnings[k], Courses(c)[i]))
                    <=> OutOfBand(EntryCount(c, Courses(c)[i]))
              /\ \A k \in 1..Len(Res(c).warnings) :
                   SameTerm(Res(c).warnings[k], Courses(c)[i]) =>
                     Res(c).warnings[k].error[2]
                       = CreditsPerCourse * EntryCount(c, Courses(c)[i]))
  /\ [][\A c \in Calls :
         (pc[c] = "walk" /\ walk'[c] # walk[c] /\ WellFormedPlan(c)) =>
         \A e \in EntriesChecked(c) :
           /\ Retaken(c, e.courseCode) =>
                \A P \in Prereqs(e.courseCode) :
                  (\E f \in NewErrors(c) :
                      f.courseCode = e.courseCode /\ Names(f, P))
                  <=> (/\ P \notin completed[c]
                       /\ ~ \E p \in EntriesChecked(c) : p.courseCode = P)
           /\ \A j \in 1..Len(Courses(c)) :
                (/\ Retaken(c, Courses(c)[j].courseCode)
                 /\ EarlierTerm(Courses(c)[j], e))
                  => ~ \E f \in NewErrors(c) :
                         Names(f, Courses(c)[j].courseCode)]_vars

\* C25: the warnings of a result depend only on how many entries each term
\* has: the same plan validated against another prerequisite graph gets the
\* same warnings, and two plans with the same number of entries in every
\* term get the same warnings list.
OtherGraphs ==
  {[k \in DOMAIN BuildCourseGraph |-> <<>>],
   [k \in {"ENWR 1510", "CS 2100"} |-> <<"CS 2120">>]}

SameCountPerTerm(c, d) ==
  /\ \A i \in 1..Len(Courses(c)) :
       EntryCount(c, Courses(c)[i]) = EntryCount(d, Courses(c)[i])
  /\ \A i \in 1..Len(Courses(d)) :
       EntryCount(c, Courses(d)[i]) = EntryCount(d, Courses(d)[i])

C25_WarningsDependOnCountsOnly ==
  /\ \A c \in Calls : (Done(c) /\ WellFormedPlan(c)) =>
       \A graph \in OtherGraphs :
         /\ ValidatePlan(graph, plan[c]) # <<>>
         /\ ValidatePlan(graph, plan[c])[1].warnings = Res(c).warnings
  /\ (/\ Done(1) /\ Done(2)
      /\ WellFormedPlan(1) /\ WellFormedPlan(2)
      /\ SameCountPerTerm(1, 2))
       => Res(1).warnings = Res(2).warnings

\* C26: only direct prerequisites are checked: every Error of a call names a
\* course listed in the graph entry of the Error's own course, and a course
\* gets no Error naming a prerequisite of one of its prerequisites that is
\* not also its own prerequisite.
ListedFor(course_code) ==
  IF course_code \in DOMAIN BuildCourseGraph
  THEN {BuildCourseGraph[course_code][i] :
          i \in 1..Len(BuildCourseGraph[course_code])}
  ELSE {}

C26_OnlyDirectPrereqs ==
  \A c \in Calls : Started(c) =>
    /\ \A k \in 1..Len(errors[c]) :
         \E P \in ListedFor(errors[c][k].courseCode) : Names(errors[c][k], P)
    /\ Done(c) =>
         \A k \in 1..Len(Res(c).errors) :
           /\ \E P \in ListedFor(Res(c).errors[k].courseCode) :
                Names(Res(c).errors[k], P)
           /\ \A P \in ListedFor(Res(c).errors[k].courseCode) :
                \A Q \in ListedFor(P) \ ListedFor(Res(c).errors[k].courseCode) :
                  ~Names(Res(c).errors[k], Q)

C26_Witness ==
  \E c \in Calls :
    /\ Done(c)
    /\ \A i \in 1..Len(Courses(c)) :
         Courses(c)[i].courseCode \notin {"CS 1110", "CS 2100"}
    /\ Len(Res(c).errors) = 1
    /\ Res(c).errors[1].courseCode = "CS 2120"
    /\ Names(Res(c).errors[1], "CS 2100")

\* C27: a result has at most one Warning per term: no two warnings of the
\* list carry the same year and semester, so no term has both a low-load and
\* a high-load warning, and the list is no longer than the number of
\* distinct (year, semester) pairs of the plan.
C27_AtMostOneWarningPerTerm ==
  \A c \in Calls : Done(c) =>
    /\ Len(Res(c).warnings) <= Cardinality(TermsOf(c))
    /\ \A k, l \in 1..Len(Res(c).warnings) :
         SameTerm(Res(c).warnings[k], Res(c).warnings[l]) => k = l

C27_Witness ==
  \E c \in Calls :
    /\ Done(c)
    /\ Len(Courses(c)) = 7
    /\ Cardinality(TermsOf(c)) = 2
    /\ Len(Res(c).warnings) = 1
    /\ Res(c).warnings[1].error[1] = "Low credit load: "

\* C28: an entry whose semester is anything but "Fall" is grouped under the
\* Spring key of its year together with every other such entry of that year,
\* its term is visited after the Fall term of that year, and the result
\* reports the group as "Spring": no Warning carries another semester name.
AsSpring(e) == [e EXCEPT !.semester = "Spring"]

CodesNotFall(c, year) ==
  LET InGroup(f) == f.year = year /\ f.semester # "Fall"
      entries == SelectSeq(Courses(c), InGroup)
  IN  [k \in 1..Len(entries) |-> entries[k].courseCode]

C28_OtherSemesterIsSpring ==
  \A c \in Calls : Started(c) =>
    \A i \in 1..Len(Courses(c)) :
      LET e == Courses(c)[i]
      IN  e.semester # "Fall" =>
            /\ \E k \in 1..Len(timeline[c]) :
                 /\ timeline[c][k].key = SemesterKey(AsSpring(e))
                 /\ timeline[c][k].courses = CodesNotFall(c, e.year)
            /\ \A j \in 1..Len(Courses(c)) :
                 (/\ Courses(c)[j].year = e.year
                  /\ Courses(c)[j].semester = "Fall"
                  /\ ~InList(SemesterKey(e), walk[c]))
                   => ~InList(SemesterKey(Courses(c)[j]), walk[c])
            /\ Done(c) =>
                 /\ \A k \in 1..Len(Res(c).warnings) :
                      Res(c).warnings[k].semester \in {"Fall", "Spring"}
                 /\ (\E k \in 1..Len(Res(c).warnings) :
                        /\ SameTerm(Res(c).warnings[k], AsSpring(e))
                        /\ Res(c).warnings[k].error[2]
                             = CreditsPerCourse * Len(CodesNotFall(c, e.year)))
                      <=> OutOfBand(Len(CodesNotFall(c, e.year)))

C28_Witness ==
  \E c \in Calls :
    /\ Done(c)
    /\ Len(Courses(c)) = 2
    /\ Courses(c)[1].semester = "fall"
    /\ Courses(c)[2].semester = "Summer"
    /\ Courses(c)[1].year = Courses(c)[2].year
    /\ Len(Res(c).warnings) = 1
    /\ Res(c).warnings[1].semester = "Spring"
    /\ Res(c).warnings[1].error[2] = 6

\* C29: a call whose plan has an entry with a negative year never returns a
\* result, partial or not: it runs the grouping and the walk, and the step
\* it takes in the credit-load pass is the one that raises.
HasNegativeYear(c) ==
  /\ StudentPlanOk(plan[c])
  /\ \E i \in 1..Len(Courses(c)) : Courses(c)[i].year < 0

C29_NegativeYearRaises ==
  /\ [](\A c \in Calls : HasNegativeYear(c) =>
          /\ pc[c] \in {"idle", "walk", "credit", "raised"}
          /\ result[c] = <<>>)
  /\ [][\A c \in Calls : HasNegativeYear(c) =>
         /\ (pc[c] = "credit" /\ pc'[c] # pc[c]) =>
              pc'[c] = "raised" /\ result'[c] = <<>>
         /\ (pc'[c] = "raised" /\ pc[c] # "raised") => pc[c] = "credit"]_vars

C29_Witness ==
  \E c \in Calls :
    /\ pc[c] = "raised"
    /\ result[c] = <<>>
    /\ Len(Courses(c)) = 2
    /\ Courses(c)[1].year < 0
    /\ Courses(c)[2].year > 0
    /\ Len(errors[c]) = 2

\* C30: once the filter loop has passed a year of the generated plan, each
\* of its fall and spring lists holds exactly the courses of the list in the
\* response whose courseCode, spaces removed and upper-cased, equals a
\* catalog code normalized the same way, in their original order; the plan
\* returned holds these lists, and empty ones for a year the response lacks.
CatalogCodes ==
  {all_courses[i].courseCode : i \in
     {j \in 1..Len(all_courses) :
        /\ "courseCode" \in DOMAIN all_courses[j]
        /\ all_courses[j].courseCode # <<>>}}

MatchesCatalog(course) ==
  /\ "courseCode" \in DOMAIN course
  /\ \E k \in CatalogCodes :
       NormalizeCode(k) = NormalizeCode(course.courseCode)

YearKeys == {"year1", "year2", "year3", "year4"}

YearFiltered(year_key) ==
  gen_pc \in {"filter", "returned"} /\ ~InList(year_key, year_keys)

C30_FilteredCoursesAreCatalogCourses ==
  /\ \A y \in YearKeys \cap DOMAIN response_text : YearFiltered(y) =>
       \A sem \in {"fall", "spring"} \cap DOMAIN response_text[y] :
         /\ sem \in DOMAIN plan_json[y]
         /\ \A k \in 1..Len(plan_json[y][sem]) :
              MatchesCatalog(plan_json[y][sem][k])
         /\ plan_json[y][sem] = SelectSeq(response_text[y][sem], MatchesCatalog)
  /\ gen_pc = "returned" =>
       \A y \in YearKeys :
         \A sem \in {"fall", "spring"} \cap DOMAIN generated[1][y] :
           /\ \A k \in 1..Len(generated[1][y][sem]) :
                MatchesCatalog(generated[1][y][sem][k])
           /\ generated[1][y][sem] =
                IF y \in DOMAIN response_text
                THEN SelectSeq(response_text[y][sem], MatchesCatalog)
                ELSE <<>>

C30_Witness ==
  /\ gen_pc = "returned"
  /\ Len(all_courses) = 4
  /\ response_text.year1.fall =
       <<[courseCode |-> <<"c", "s", "1">>], [courseCode |-> <<"C", "S", " ", "9">>]>>
  /\ generated[1].year1.fall = <<[courseCode |-> <<"c", "s", "1">>]>>
  /\ generated[1].year4.spring = generated[1].year1.fall
  /\ generated[1].year4.summer = response_text.year1.fall
  /\ response_text.year1.spring # <<>>
  /\ generated[1].year1.spring = <<>>
  /\ generated[1].year3 = [fall |-> <<>>, spring |-> <<>>]

====
